---- MODULE Spec2Model ----
(***************************************************************************)
(* Change-detection and adaptive-notification pipeline of main.py.         *)
(*                                                                         *)
(* Six specifications share the module's variables:                        *)
(*   Spec       the scan threads of SmartMonitoringSystem: check_all_sites *)
(*              and check_site over the monitored_sites table;             *)
(*   SpecPrefs  UserPreferenceManager and handle_feedback over the         *)
(*              user_preferences table, with the store's Lock;             *)
(*   SpecNotify UserPreferenceManager.should_send_notification;            *)
(*   SpecGroup  NotificationGrouper: add_notification and                  *)
(*              get_grouped_notifications;                                 *)
(*   SpecPipe   SmartNotificationSystem.process_change with the analysis   *)
(*              of AINotificationFilter and the delivery of its result;    *)
(*   SpecStore  DatabaseManager.get_connection, as the scan threads and    *)
(*              the bot's event loop enter and leave it.                   *)
(*                                                                         *)
(* Units: time in minutes; importance weights, base importance and         *)
(* like-ratio thresholds in tenths (0.7 is 7), scores in hundredths.       *)
(***************************************************************************)
EXTENDS Integers, Sequences, FiniteSets, TLC

\* ------------------------------------------------------------ bounds
NumSites == 2
NumUsers == 2
NumBodies == 3
NumDigests == 2
MaxTime == 10
TimeStep == 5
NumNotifs == 2
MaxFeedback == 10
MaxQueued == 2
NumRuns == 2

\* ------------------------------------------------- program constants
MinTextLen == 50
MaxStoredLen == 100000
MaxDiffLen == 5000
DiffHeaderLen == 25
CheckInterval == 10
ScanInterval == 10
Null == -1
MinWeight == 1
MaxWeight == 10
WeightStep == 1
MinPatternTotal == 3

Sites == 1..NumSites
Users == 1..NumUsers
Threads == {"startup", "periodic"}

VARIABLES
    sites,      \* monitored_sites: site id -> [last_hash, last_content, last_checked]
    subscribed, \* users.subscribed: user id -> BOOLEAN
    errors,     \* check_errors: site id -> number of rows
    now,        \* the store's clock (CURRENT_TIMESTAMP, datetime('now'))
    active,     \* SmartMonitoringSystem.active
    nextRun,    \* the schedule job's next_run
    pc,         \* each scan thread's position
    due,        \* each scan thread's list `sites`, the rows it still has to check
    cur,        \* each scan thread's check_site call: the one running, else the last one
    scheduled,  \* user id -> process_change coroutines handed to the event loop
    prefs,      \* user_preferences: user id -> the stored record, or NoPrefs
    lock,       \* the Lock of the bot's DatabaseManager
    task,       \* the handler the event loop is running, with its locals
    received,   \* notification_history.feedback_received, by notification
    feedback,   \* user_feedback: user id -> number of rows
    stats,      \* SmartNotificationSystem.stats['user_feedback']
    done,       \* user id -> feedback events that ran to their end
    zone,       \* user id -> every pattern with 3+ events stayed in the dead zone
    initial,    \* user id -> the user_preferences record the run started with
    lookup,     \* the last SELECT of handle_feedback: its key, and whether a row came
    decision,   \* the last should_send_notification call and what it returned
    pending,    \* NotificationGrouper.pending_notifications: user id -> list
    flushed,    \* the last get_grouped_notifications call and what it returned
    serial,     \* notifications built so far
    api_key,    \* AINotificationFilter.api_key is set
    processed,  \* the last process_change run up to its first await
    runs,       \* the process_change coroutines: position, user, what is left to send
    pstats,     \* stats['notifications_filtered'] and stats['notifications_sent']
    delivery,   \* by notification_id: send_message calls, accepted ones, history rows
    mlock,      \* the Lock of the DatabaseManager main() builds for the scans
    conn        \* by thread of control: the get_connection block it is in

monVars == <<sites, subscribed, errors, now, active, nextRun, pc, due, cur,
             scheduled>>

prefVars == <<prefs, lock, task, received, feedback, stats, done, zone, initial,
              lookup>>

noteVars == <<decision, pending, flushed, serial>>

pipeVars == <<api_key, processed, runs, pstats, delivery>>

storeVars == <<mlock, conn>>

botVars == <<prefVars, noteVars, pipeVars, storeVars>>

vars == <<monVars, botVars>>

\* ------------------------------------------------------------- texts
\* A normalized text is [body, len]: which characters, and how many.
Txt(b, l) == [body |-> b, len |-> l]
NoText == Txt(0, 0)

BodyLen(b) ==
    IF b % 3 = 1 THEN MinTextLen
    ELSE IF b % 3 = 2 THEN 3000
    ELSE MaxStoredLen + 1

\* What soup.get_text() and the whitespace collapse can yield: one text under
\* the 50 character limit, and NumBodies texts at or over it.
ShortText == Txt(1, MinTextLen - 1)
FullTexts == {Txt(b, BodyLen(b)) : b \in 1..NumBodies}
Texts == {ShortText, NoText} \cup FullTexts

\* hashlib.md5(text).hexdigest(): a function of the whole text onto a finite
\* set of digests, hence not injective; never the empty string.
NoHash == 0
Md5(t) == ((t.body + t.len) % NumDigests) + 1

\* content[:100000]
Truncate(t) == IF t.len > MaxStoredLen THEN Txt(t.body, MaxStoredLen) ELSE t

\* ---------------------------------------------------------- the store
SiteOwner(s) == ((s - 1) % NumUsers) + 1

NewRow == [last_hash |-> NoHash, last_content |-> NoText, last_checked |-> Null]

\* The row update_site_hash writes.
CheckedRow(h, t, at) ==
    [last_hash |-> h, last_content |-> Truncate(t), last_checked |-> at]

\* Mutant: the row is written only when the fingerprint moved.
update_site_hash_if_changed(tbl, s, h, t, at) ==
    IF tbl[s].last_hash = h THEN tbl ELSE [tbl EXCEPT ![s] = CheckedRow(h, t, at)]

\* DatabaseManager.update_site_hash
update_site_hash(tbl, s, h, t, at) == [tbl EXCEPT ![s] = CheckedRow(h, t, at)]

\* The WHERE clause of get_all_monitored_sites (enabled is 1 in every row: no
\* statement of the program sets it).
IsDue(s) ==
    /\ subscribed[SiteOwner(s)]
    /\ \/ sites[s].last_checked = Null
       \/ sites[s].last_checked + CheckInterval < now

RECURSIVE RowsFrom(_)
RowsFrom(s) ==
    IF s > NumSites THEN <<>>
    ELSE (IF IsDue(s)
          THEN <<[id |-> s, last_hash |-> sites[s].last_hash,
                  last_content |-> sites[s].last_content]>>
          ELSE <<>>) \o RowsFrom(s + 1)

\* DatabaseManager.get_all_monitored_sites: the rows as they are now.
get_all_monitored_sites == RowsFrom(1)

\* -------------------------------------------------------- check_site
\* len('\n'.join(difflib.unified_diff(old.splitlines(), new.splitlines(),
\* lineterm='', n=2))[:5000]) for two different one-line texts.
DiffLen(old, new) ==
    LET full == DiffHeaderLen + old.len + new.len
    IN  IF full > MaxDiffLen THEN MaxDiffLen ELSE full

\* Mutants of the condition of line 1088.
ChangeDetectedAnyStored(row_hash, current_hash) == row_hash # NoHash
ChangeDetectedNoBaseline(row_hash, current_hash) == current_hash # row_hash

\* The condition of line 1088: a change is detected.
ChangeDetected(row_hash, current_hash) ==
    row_hash # NoHash /\ current_hash # row_hash

\* What the fetch and the parse of one check can end in.
FetchErrors ==
    {"http_error", "timeout", "connection_error", "general_error", "parsing_error"}

\* asyncio.get_event_loop() in a scan thread: a loop, or RuntimeError.
LoopOutcomes == {"queued", "RuntimeError"}

\* asyncio.run_coroutine_threadsafe: one more coroutine of the change's user
\* waits on the loop.
run_coroutine_threadsafe(q, change) == [q EXCEPT ![change.user_id] = @ + 1]

NoCheck ==
    [site |-> 0, last_hash |-> NoHash, last_content |-> NoText, text |-> NoText,
     hash |-> NoHash, emitted |-> FALSE, diff_len |-> 0, sched |-> "none",
     outcome |-> "none"]

\* What is left of a check_site call once it has returned: the row it worked
\* on, what it did and how it ended; its other locals are gone.
Returned(c, outcome) ==
    [NoCheck EXCEPT !.site = c.site, !.last_hash = c.last_hash,
                    !.emitted = c.emitted, !.sched = c.sched, !.outcome = outcome]

\* Mutant: an exception that leaves check_site ends the scan.
AfterCheckAbort(t, outcome) ==
    IF outcome = "raised"
    THEN (IF t = "periodic" THEN "idle" ELSE "done")
    ELSE "scan"

\* Where the loop of check_all_sites goes when check_site has returned or
\* raised, lines 1009-1014: to its next turn.
AfterCheck(t, outcome) == "scan"

\* DatabaseManager.record_error
record_error(tbl, s) == [tbl EXCEPT ![s] = @ + 1]

\* ------------------------------------------------------- preferences
Categories == {"content", "design", "technical"}
Importances == {"high", "medium", "low"}
FeedbackTypes == {"like", "dislike", "dismiss"}
CategoryList == <<"content", "design", "technical">>
ImportanceList == <<"high", "medium", "low">>

\* The default_prefs of get_user_preferences; learned_patterns keeps the order
\* in which its keys were inserted.
DefaultPrefs ==
    [cats |-> {"content", "design", "technical"},
     weights |-> [c \in Categories |->
                    IF c = "content" THEN 10 ELSE IF c = "design" THEN 7 ELSE 3],
     frequency |-> "immediate",
     patterns |-> <<>>,
     positive_feedback |-> 0,
     negative_feedback |-> 0]

\* No row of user_preferences.
NoPrefs ==
    [cats |-> {}, weights |-> [c \in Categories |-> 0], frequency |-> "absent",
     patterns |-> <<>>, positive_feedback |-> 0, negative_feedback |-> 0]

\* Rows of user_preferences as the store may hold them when the program starts.
StoredPrefs ==
    {DefaultPrefs,
     [DefaultPrefs EXCEPT !.weights =
        [c \in Categories |-> IF c = "content" THEN 7 ELSE 1]]}

\* The rows of notification_history: who was sent notification n, and the
\* category and importance it was sent with.
Notifs == 1..NumNotifs
NotifRow(n) ==
    [user_id |-> ((n - 1) % NumUsers) + 1,
     category |-> CategoryList[((n - 1) % 3) + 1],
     importance |-> ImportanceList[((n - 1) % 3) + 1]]

\* A notification_id that notification_history does not hold.
UnknownNotif == 0

\* Mutant: a notification that has feedback already is not found again.
HistoryRowUnanswered(n, u) ==
    n \in Notifs /\ NotifRow(n).user_id = u /\ ~received[n]

\* Mutant: the SELECT leaves the user out.
HistoryRowAnyUser(n, u) == n \in Notifs

\* The SELECT of handle_feedback.
HistoryRow(n, u) == n \in Notifs /\ NotifRow(n).user_id = u

\* update_learning_model, lines 319-331, on the learning_data of p.
PatternIndex(ps, key) ==
    IF \E i \in 1..Len(ps) : ps[i].key = key
    THEN CHOOSE i \in 1..Len(ps) : ps[i].key = key
    ELSE 0

\* Mutant: a dismiss is not counted.
LearnFeedbackNoDismiss(p, ftype, key) ==
    LET ps0 == IF PatternIndex(p.patterns, key) = 0
               THEN Append(p.patterns, [key |-> key, likes |-> 0, dislikes |-> 0])
               ELSE p.patterns
        i == PatternIndex(ps0, key)
        ps1 == IF ftype = "like"
               THEN [ps0 EXCEPT ![i].likes = @ + 1]
               ELSE IF ftype = "dislike"
                    THEN [ps0 EXCEPT ![i].dislikes = @ + 1]
                    ELSE ps0
    IN  [p EXCEPT !.patterns = ps1,
                  !.positive_feedback = IF ftype = "like" THEN @ + 1 ELSE @,
                  !.negative_feedback =
                      IF ftype \in {"dislike", "dismiss"} THEN @ + 1 ELSE @]

LearnFeedback(p, ftype, key) ==
    LET ps0 == IF PatternIndex(p.patterns, key) = 0
               THEN Append(p.patterns, [key |-> key, likes |-> 0, dislikes |-> 0])
               ELSE p.patterns
        i == PatternIndex(ps0, key)
        ps1 == IF ftype = "like"
               THEN [ps0 EXCEPT ![i].likes = @ + 1]
               ELSE IF ftype \in {"dislike", "dismiss"}
                    THEN [ps0 EXCEPT ![i].dislikes = @ + 1]
                    ELSE ps0
    IN  [p EXCEPT !.patterns = ps1,
                  !.positive_feedback = IF ftype = "like" THEN @ + 1 ELSE @,
                  !.negative_feedback =
                      IF ftype \in {"dislike", "dismiss"} THEN @ + 1 ELSE @]

\* Mutant: like_ratio >= 0.7.
RatioAboveInclusive(f) == 10 * f.likes >= 7 * (f.likes + f.dislikes)

\* like_ratio > 0.7 and like_ratio < 0.3, for like_ratio = likes / total.
RatioAbove(f) == 10 * f.likes > 7 * (f.likes + f.dislikes)
RatioBelow(f) == 10 * f.likes < 3 * (f.likes + f.dislikes)

Min(a, b) == IF a < b THEN a ELSE b
Max(a, b) == IF a > b THEN a ELSE b

\* Mutant: the new weight is not clamped.
AdjustOneUnclamped(w, f) ==
    IF f.likes + f.dislikes >= MinPatternTotal
    THEN IF RatioAbove(f)
         THEN [w EXCEPT ![f.key[1]] = @ + WeightStep]
         ELSE IF RatioBelow(f)
              THEN [w EXCEPT ![f.key[1]] = @ - WeightStep]
              ELSE w
    ELSE w

\* The body of the loop of adjust_importance_weights, lines 342-351.
AdjustOne(w, f) ==
    IF f.likes + f.dislikes >= MinPatternTotal
    THEN IF RatioAbove(f)
         THEN [w EXCEPT ![f.key[1]] = Min(MaxWeight, @ + WeightStep)]
         ELSE IF RatioBelow(f)
              THEN [w EXCEPT ![f.key[1]] = Max(MinWeight, @ - WeightStep)]
              ELSE w
    ELSE w

\* The loop of adjust_importance_weights over learned_patterns, in its order.
RECURSIVE AdjustFrom(_, _, _)
AdjustFrom(w, ps, i) ==
    IF i > Len(ps) THEN w ELSE AdjustFrom(AdjustOne(w, ps[i]), ps, i + 1)

AdjustWeights(w, ps) == AdjustFrom(w, ps, 1)

\* Every pattern with 3 or more events has its like-ratio in [0.3, 0.7].
InDeadZone(ps) ==
    \A i \in 1..Len(ps) :
        LET total == ps[i].likes + ps[i].dislikes
        IN  total >= 3
            => (10 * ps[i].likes >= 3 * total /\ 10 * ps[i].likes <= 7 * total)

\* No feedback looked up yet.
NoLookup == [user |-> 0, notif |-> 0, found |-> FALSE]

IdleTask ==
    [op |-> "idle", stage |-> "idle", user |-> 0, notif |-> 0, ftype |-> "none",
     key |-> <<>>, p1 |-> NoPrefs, p2 |-> NoPrefs]

NoDecision ==
    [user |-> 0, category |-> "none", importance |-> "none", send |-> FALSE]

NoFlush == [user |-> 0, notifications |-> <<>>, result |-> <<>>]

Runs == 1..NumRuns

NoAnalysis ==
    [shape |-> "none", category |-> "none", importance |-> "none",
     personalized_summary |-> "none"]

NotProcessed ==
    [user |-> 0, diff_len |-> 0, ai |-> "none", analysis |-> NoAnalysis,
     outcome |-> "none"]

NewRun == [pc |-> "new", user |-> 0, outbox |-> <<>>]

\* A coroutine that has returned: its locals are gone.
DoneRun == [pc |-> "done", user |-> 0, outbox |-> <<>>]

NoDelivery == [attempts |-> 0, accepted |-> 0, rows |-> 0]

\* The threads of control that use the store: the two scan threads and the
\* thread of the bot's event loop.
Procs == Threads \cup {"loop"}

NoConn == [op |-> "none", stage |-> "idle"]

\* No get_connection block entered.
StoreIdle ==
    /\ mlock = "free"
    /\ conn = [p \in Procs |-> NoConn]

\* No change processed yet; main() passes an empty AI_TUNNEL_API_KEY.
PipeIdle ==
    /\ api_key = FALSE
    /\ processed = NotProcessed
    /\ runs = [r \in Runs |-> NewRun]
    /\ pstats = [filtered |-> 0, sent |-> 0]
    /\ delivery = [id \in 0..MaxQueued |-> NoDelivery]

\* No notification decided or queued yet.
NoteIdle ==
    /\ decision = NoDecision
    /\ pending = [u \in Users |-> <<>>]
    /\ flushed = NoFlush
    /\ serial = 0
    /\ PipeIdle
    /\ StoreIdle

\* The bot's side at rest.
BotIdle ==
    /\ prefs = [u \in Users |-> NoPrefs]
    /\ lock = "free"
    /\ task = IdleTask
    /\ received = [n \in Notifs |-> FALSE]
    /\ feedback = [u \in Users |-> 0]
    /\ stats = [likes |-> 0, dislikes |-> 0]
    /\ done = [u \in Users |-> 0]
    /\ zone = [u \in Users |-> TRUE]
    /\ initial = prefs
    /\ lookup = NoLookup
    /\ NoteIdle

\* The scan threads at rest.
MonIdle ==
    /\ sites = [s \in Sites |-> NewRow]
    /\ subscribed = [u \in Users |-> FALSE]
    /\ errors = [s \in Sites |-> 0]
    /\ now = 0
    /\ active = FALSE
    /\ nextRun = ScanInterval
    /\ pc = [t \in Threads |-> "done"]
    /\ due = [t \in Threads |-> <<>>]
    /\ cur = [t \in Threads |-> NoCheck]
    /\ scheduled = [u \in Users |-> 0]

\* A row of monitored_sites as an earlier run of the program left it.
StoredRows ==
    {NewRow} \cup {CheckedRow(Md5(t), t, 0 - CheckInterval - TimeStep) : t \in FullTexts}

MonInit ==
    /\ sites \in [Sites -> StoredRows]
    /\ subscribed \in [Users -> BOOLEAN]
    /\ errors = [s \in Sites |-> 0]
    /\ now = 0
    /\ active = TRUE
    /\ nextRun = ScanInterval
    /\ pc = [t \in Threads |-> IF t = "startup" THEN "start" ELSE "idle"]
    /\ due = [t \in Threads |-> <<>>]
    /\ cur = [t \in Threads |-> NoCheck]
    /\ scheduled = [u \in Users |-> 0]

\* Time passes.
Tick ==
    /\ now + TimeStep <= MaxTime
    /\ now' = now + TimeStep
    /\ UNCHANGED <<sites, subscribed, errors, active, nextRun, pc, due, cur,
                   scheduled>>
    /\ UNCHANGED botVars

\* MonitoringBot.subscribe_command
subscribe_command(u) ==
    /\ ~subscribed[u]
    /\ subscribed' = [subscribed EXCEPT ![u] = TRUE]
    /\ UNCHANGED <<sites, errors, now, active, nextRun, pc, due, cur,
                   scheduled>>
    /\ UNCHANGED botVars

\* MonitoringBot.unsubscribe_command
unsubscribe_command(u) ==
    /\ subscribed[u]
    /\ subscribed' = [subscribed EXCEPT ![u] = FALSE]
    /\ UNCHANGED <<sites, errors, now, active, nextRun, pc, due, cur,
                   scheduled>>
    /\ UNCHANGED botVars

\* SmartMonitoringSystem.stop_monitoring
stop_monitoring ==
    /\ active
    /\ active' = FALSE
    /\ UNCHANGED <<sites, subscribed, errors, now, nextRun, pc, due, cur,
                   scheduled>>
    /\ UNCHANGED botVars

\* Mutant: check_all_sites does not look at the flag.
ScanProceedsAlways(flag) == TRUE

\* `if not self.active: return`, lines 999-1000.
ScanProceeds(flag) == flag

\* check_all_sites up to the start of its loop: the thread started by
\* start_monitoring runs it at once, monitoring_loop runs it when the schedule
\* job is due.
ScanStart(t) ==
    /\ \/ t = "startup" /\ pc[t] = "start"
       \/ t = "periodic" /\ pc[t] = "idle" /\ active /\ now >= nextRun
    /\ IF ScanProceeds(active)
       THEN /\ due' = [due EXCEPT ![t] = get_all_monitored_sites]
            /\ pc' = [pc EXCEPT ![t] = "scan"]
       ELSE /\ due' = due
            /\ pc' = [pc EXCEPT ![t] = "done"]
    /\ UNCHANGED <<sites, subscribed, errors, now, active, nextRun, cur,
                   scheduled>>
    /\ UNCHANGED botVars

\* The head of the loop of check_all_sites: the next row, or the end of the scan.
ScanNext(t) ==
    /\ pc[t] = "scan"
    /\ IF due[t] = <<>>
       THEN /\ pc' = [pc EXCEPT ![t] = IF t = "periodic" THEN "idle" ELSE "done"]
            /\ nextRun' = IF t = "periodic" THEN now + ScanInterval ELSE nextRun
            /\ UNCHANGED <<due, cur>>
       ELSE /\ pc' = [pc EXCEPT ![t] = "fetch"]
            /\ cur' = [cur EXCEPT ![t] =
                    [NoCheck EXCEPT !.site = Head(due[t]).id,
                                    !.last_hash = Head(due[t]).last_hash,
                                    !.last_content = Head(due[t]).last_content]]
            /\ due' = [due EXCEPT ![t] = Tail(due[t])]
            /\ nextRun' = nextRun
    /\ UNCHANGED <<sites, subscribed, errors, now, active, scheduled>>
    /\ UNCHANGED botVars

\* Mutant: only an empty text is too short.
TooShortWhenEmpty(text) == text.len = 0

\* `not text or len(text) < 50`, line 1082.
TooShort(text) == text.len = 0 \/ text.len < MinTextLen

\* check_site, lines 1082-1084: too little text, the check returns.
CheckSkipped(t, text) ==
    /\ pc[t] = "fetch"
    /\ TooShort(text)
    /\ cur' = [cur EXCEPT ![t] = Returned(cur[t], "skipped")]
    /\ pc' = [pc EXCEPT ![t] = AfterCheck(t, "skipped")]
    /\ UNCHANGED <<sites, subscribed, errors, now, active, nextRun, due,
                   scheduled>>
    /\ UNCHANGED botVars

\* What record_error can end in: the row is stored, or the store raises.
RecordResults == {"stored", "raises"}

\* check_site, lines 1077-1080 and 1130-1148: the fetch or the parse raises
\* and the handler calls record_error. When that raises too, the exception
\* leaves check_site and is caught by the loop of check_all_sites, line 1012.
CheckFailed(t, kind, rec) ==
    /\ pc[t] = "fetch"
    /\ errors' = IF rec = "stored" THEN record_error(errors, cur[t].site) ELSE errors
    /\ cur' = [cur EXCEPT ![t] =
                  Returned(cur[t], IF rec = "stored" THEN "error" ELSE "raised")]
    /\ pc' = [pc EXCEPT ![t] =
                 AfterCheck(t, IF rec = "stored" THEN "error" ELSE "raised")]
    /\ UNCHANGED <<sites, subscribed, now, active, nextRun, due, scheduled>>
    /\ UNCHANGED botVars

\* check_site, lines 1020-1125: the fetch and the parse end in a normalized
\* text of at least 50 characters; then the fingerprint, the comparison with
\* the row the scan read, and the hand-over of process_change to the event loop.
CheckCompare(t, text, loop) ==
    /\ pc[t] = "fetch"
    /\ ~TooShort(text)
    /\ LET h == Md5(text)
           changed == ChangeDetected(cur[t].last_hash, h)
           change == [user_id |-> SiteOwner(cur[t].site), site |-> cur[t].site,
                      diff_len |-> DiffLen(cur[t].last_content, text)]
       IN  /\ cur' = [cur EXCEPT ![t].text = text, ![t].hash = h,
                                 ![t].emitted = changed,
                                 ![t].diff_len = IF changed THEN change.diff_len ELSE 0,
                                 ![t].sched = IF changed THEN loop ELSE "none"]
           /\ scheduled' = IF changed /\ loop = "queued"
                           THEN run_coroutine_threadsafe(scheduled, change)
                           ELSE scheduled
    /\ pc' = [pc EXCEPT ![t] = "update"]
    /\ UNCHANGED <<sites, subscribed, errors, now, active, nextRun, due>>
    /\ UNCHANGED botVars

\* check_site, lines 1127-1128.
CheckUpdate(t) ==
    /\ pc[t] = "update"
    /\ sites' = update_site_hash(sites, cur[t].site, cur[t].hash, cur[t].text, now)
    /\ cur' = [cur EXCEPT ![t] = Returned(cur[t], "checked")]
    /\ pc' = [pc EXCEPT ![t] = AfterCheck(t, "checked")]
    /\ UNCHANGED <<subscribed, errors, now, active, nextRun, due, scheduled>>
    /\ UNCHANGED botVars

Next ==
    \/ Tick
    \/ \E u \in Users : subscribe_command(u)
    \/ \E u \in Users : unsubscribe_command(u)
    \/ stop_monitoring
    \/ \E t \in Threads : ScanStart(t)
    \/ \E t \in Threads : ScanNext(t)
    \/ \E t \in Threads, text \in Texts : CheckSkipped(t, text)
    \/ \E t \in Threads, kind \in FetchErrors, rec \in RecordResults :
            CheckFailed(t, kind, rec)
    \/ \E t \in Threads, text \in Texts, loop \in LoopOutcomes :
            CheckCompare(t, text, loop)
    \/ \E t \in Threads : CheckUpdate(t)

Init == MonInit /\ BotIdle

Spec == Init /\ [][Next]_vars

\* ------------------------------------------------- claims: check_site
InCheck(t) == pc[t] \in {"fetch", "update"}

\* C1: a check whose normalized text hashes to the fingerprint of the row it
\* works on (a stored, non-empty fingerprint) emits no change: no
\* process_change coroutine is created or handed to the loop, whatever the
\* stored text and whoever owns the site.
C1_SameFingerprintUnchanged ==
    \A t \in Threads :
        (/\ pc[t] = "update"
         /\ cur[t].last_hash # NoHash
         /\ Md5(cur[t].text) = cur[t].last_hash)
        => (~cur[t].emitted /\ cur[t].sched = "none")

\* C1 witness: such a check, of a text other than the stored one (two texts
\* with one digest), has passed the comparison.
C1_Witness ==
    \E t \in Threads :
        /\ pc[t] = "update"
        /\ cur[t].last_hash # NoHash
        /\ Md5(cur[t].text) = cur[t].last_hash
        /\ Truncate(cur[t].text) # cur[t].last_content

BotInit ==
    /\ prefs \in [Users -> {NoPrefs} \cup StoredPrefs]
    /\ lock = "free"
    /\ task = IdleTask
    /\ received = [n \in Notifs |-> FALSE]
    /\ feedback = [u \in Users |-> 0]
    /\ stats = [likes |-> 0, dislikes |-> 0]
    /\ done = [u \in Users |-> 0]
    /\ zone = [u \in Users |-> TRUE]
    /\ initial = prefs
    /\ lookup = NoLookup
    /\ NoteIdle

RECURSIVE SumUpTo(_, _)
SumUpTo(f, n) == IF n = 0 THEN 0 ELSE f[n] + SumUpTo(f, n - 1)
FeedbackRows == SumUpTo(feedback, NumUsers)

\* get_user_preferences called on its own (process_change, line 587): with a
\* row it returns it; with none it stays inside `with get_connection()`, the
\* Lock held, and calls update_user_preferences.
get_user_preferences_call(u) ==
    /\ task.op = "idle"
    /\ IF prefs[u] # NoPrefs
       THEN UNCHANGED <<lock, task>>
       ELSE /\ lock' = "held"
            /\ task' = [IdleTask EXCEPT !.op = "get_prefs", !.stage = "write_defaults",
                                        !.user = u, !.p1 = DefaultPrefs]
    /\ UNCHANGED <<prefs, received, feedback, stats, done, zone, initial,
                   lookup>>
    /\ UNCHANGED <<monVars, noteVars, pipeVars, storeVars>>

\* handle_feedback up to record_feedback's two statements (lines 695-308):
\* without a notification_history row of this user nothing happens.
handle_feedback(u, n, ftype) ==
    /\ task.op = "idle"
    /\ FeedbackRows < MaxFeedback
    /\ lookup' = [user |-> u, notif |-> n, found |-> HistoryRow(n, u)]
    /\ IF HistoryRow(n, u)
       THEN /\ feedback' = [feedback EXCEPT ![u] = @ + 1]
            /\ received' = [received EXCEPT ![n] = TRUE]
            /\ task' = [IdleTask EXCEPT !.op = "feedback", !.stage = "read1",
                            !.user = u, !.notif = n, !.ftype = ftype,
                            !.key = <<NotifRow(n).category, NotifRow(n).importance>>]
       ELSE UNCHANGED <<feedback, received, task>>
    /\ UNCHANGED <<prefs, lock, stats, done, zone, initial>>
    /\ UNCHANGED <<monVars, noteVars, pipeVars, storeVars>>

\* update_learning_model, lines 313-331: the first read of the record and the
\* counters, changed in memory only.
LearnStep ==
    /\ task.op = "feedback" /\ task.stage = "read1"
    /\ IF prefs[task.user] = NoPrefs
       THEN /\ lock' = "held"
            /\ task' = [task EXCEPT !.stage = "write_defaults", !.p1 = DefaultPrefs]
            /\ zone' = zone
       ELSE /\ lock' = lock
            /\ task' = [task EXCEPT !.stage = "read2",
                            !.p1 = LearnFeedback(prefs[task.user], task.ftype, task.key)]
            /\ zone' = [zone EXCEPT ![task.user] =
                            @ /\ InDeadZone(task'.p1.patterns)]
    /\ UNCHANGED <<prefs, received, feedback, stats, done, initial,
                   lookup>>
    /\ UNCHANGED <<monVars, noteVars, pipeVars, storeVars>>

\* adjust_importance_weights, lines 338-353: the second read of the record and
\* the new weights, from the counters in memory.
AdjustStep ==
    /\ task.op = "feedback" /\ task.stage = "read2"
    /\ task' = [task EXCEPT !.stage = "write1",
                    !.p2 = [prefs[task.user] EXCEPT !.weights =
                               AdjustWeights(@, task.p1.patterns)]]
    /\ UNCHANGED <<prefs, lock, received, feedback, stats, done, zone, initial,
                   lookup>>
    /\ UNCHANGED <<monVars, noteVars, pipeVars, storeVars>>

\* The stats of handle_feedback, lines 713-716.
CountFeedback(st, ftype) ==
    IF ftype = "like" THEN [st EXCEPT !.likes = @ + 1]
    ELSE IF ftype \in {"dislike", "dismiss"} THEN [st EXCEPT !.dislikes = @ + 1]
    ELSE st

\* update_user_preferences, which takes the Lock first: the insert of the
\* defaults (line 278), the write of adjust_importance_weights (line 354), and
\* the write of update_learning_model (line 335), after which record_feedback
\* returns and handle_feedback counts the event.
update_user_preferences ==
    /\ task.stage \in {"write_defaults", "write1", "write2"}
    /\ lock = "free"
    /\ prefs' = [prefs EXCEPT ![task.user] =
                    IF task.stage = "write1" THEN task.p2 ELSE task.p1]
    /\ task' = IF task.stage = "write1" THEN [task EXCEPT !.stage = "write2"]
               ELSE IF task.stage = "write_defaults" /\ task.op = "feedback"
                    THEN [task EXCEPT !.stage = "read1"]
                    ELSE IdleTask
    /\ stats' = IF task.stage = "write2" THEN CountFeedback(stats, task.ftype)
                ELSE stats
    /\ done' = IF task.stage = "write2" THEN [done EXCEPT ![task.user] = @ + 1]
               ELSE done
    /\ UNCHANGED <<lock, received, feedback, zone, initial,
                   lookup>>
    /\ UNCHANGED <<monVars, noteVars, pipeVars, storeVars>>

NextPrefs ==
    \/ \E u \in Users : get_user_preferences_call(u)
    \/ \E u \in Users, n \in Notifs \cup {UnknownNotif}, ftype \in FeedbackTypes :
            handle_feedback(u, n, ftype)
    \/ LearnStep
    \/ AdjustStep
    \/ update_user_preferences

InitPrefs == MonIdle /\ BotInit

SpecPrefs == InitPrefs /\ [][NextPrefs]_vars

\* ------------------------------- claims: preferences and feedback
RECURSIVE SumCounts(_, _)
SumCounts(ps, i) ==
    IF i > Len(ps) THEN 0 ELSE ps[i].likes + ps[i].dislikes + SumCounts(ps, i + 1)

Quiet(u) == task.op = "idle" \/ task.user # u

\* C4: get_user_preferences for a user with no stored record returns: the
\* caller that goes on to store the defaults can take its next step, so the
\* defaults get stored and the store stays usable.
C4_GetPrefsCreatesDefaults ==
    task.stage = "write_defaults" => ENABLED update_user_preferences

\* C6: k consecutive 'like' events on one pattern, and nothing else, leave the
\* stored weight of its category at the initial weight after the first two
\* events and 0.1 higher for each event from the third on, capped at 1.0.
C6_ConsecutiveLikesRaiseWeight ==
    \A u \in Users :
        (/\ prefs[u] # NoPrefs
         /\ Quiet(u)
         /\ Len(prefs[u].patterns) = 1
         /\ prefs[u].patterns[1].dislikes = 0)
        => LET f == prefs[u].patterns[1]
               c == f.key[1]
           IN  prefs[u].weights[c] =
                  Min(MaxWeight,
                      initial[u].weights[c]
                        + WeightStep * Max(0, f.likes - (MinPatternTotal - 1)))

\* C7: every weight of every stored preferences record lies in [0.1, 1.0], in
\* every state, the records written midway through a feedback event included.
C7_WeightsClamped ==
    \A u \in Users :
        prefs[u] # NoPrefs
        => \A c \in Categories :
              prefs[u].weights[c] >= MinWeight /\ prefs[u].weights[c] <= MaxWeight

\* C7 witness: midway through an event whose pattern asks for an increase, the
\* record written holds a weight that was at 1.0 already, still at 1.0.
C7_Witness ==
    /\ task.op = "feedback" /\ task.stage = "write2"
    /\ \E i \in 1..Len(task.p1.patterns) :
          LET f == task.p1.patterns[i]
          IN  /\ f.likes + f.dislikes >= MinPatternTotal
              /\ RatioAbove(f)
              /\ task.p1.weights[f.key[1]] = MaxWeight
              /\ prefs[task.user].weights[f.key[1]] = MaxWeight
    /\ prefs[task.user] = task.p2

\* C8: as long as every pattern of a user that has 3 or more events had its
\* like-ratio within [0.3, 0.7] after each event, every stored weight of the
\* user is its initial value, in every state.
C8_DeadZoneKeepsWeights ==
    \A u \in Users :
        (prefs[u] # NoPrefs /\ zone[u]) => prefs[u].weights = initial[u].weights

\* C8 witness: a pattern at 7 likes of 10 events, a like-ratio of exactly 0.7,
\* whose user never left the dead zone, after the event's writes.
C8_Witness ==
    \E u \in Users :
        /\ prefs[u] # NoPrefs
        /\ zone[u]
        /\ Quiet(u)
        /\ \E i \in 1..Len(prefs[u].patterns) :
              /\ prefs[u].patterns[i].likes = 7
              /\ prefs[u].patterns[i].dislikes = 3
        /\ initial[u].weights # DefaultPrefs.weights

\* C9: a feedback event is one atomic read-modify-write of the user's record:
\* when it ends the stored record is the record it read with the event's
\* counter added and the weights adjusted from those counters, and the stored
\* likes and dislikes add up to the number of events that ended.
C9_FeedbackIsAtomicUpdate ==
    [][(task.op = "feedback" /\ task'.op = "idle")
       => /\ prefs'[task.user] =
                [task.p1 EXCEPT !.weights =
                    AdjustWeights(task.p1.weights, task.p1.patterns)]
          /\ SumCounts(prefs'[task.user].patterns, 1) = done'[task.user]]_vars

\* ------------------------------------------- should_send_notification
\* The categories an analysis can carry: _basic_analysis returns the first
\* three, the AI prompt (line 427) allows all five.
AnalysisCategories == Categories \cup {"commerce", "news"}

\* Mutant: low scores 0.3.
BaseImportanceLowRaised(importance) ==
    CASE importance = "high" -> 10
      [] importance = "medium" -> 5
      [] importance = "low" -> 3

\* base_importance_score, line 364, in tenths.
BaseImportance(importance) ==
    CASE importance = "high" -> 10
      [] importance = "medium" -> 5
      [] importance = "low" -> 2

\* The default of prefs['importance_weights'].get(category, 0.5), in tenths.
DefaultWeight == 5

\* threshold = 0.3, in hundredths.
Threshold == 30

user_weight(p, category) ==
    IF category \in DOMAIN p.weights THEN p.weights[category] ELSE DefaultWeight

\* Mutant: the score falls as the weight grows.
should_send_inverse(p, category, importance) ==
    /\ category \in p.cats
    /\ BaseImportance(importance) * (MinWeight + MaxWeight - user_weight(p, category))
          >= Threshold

\* Mutant: final_score > threshold.
should_send_strict(p, category, importance) ==
    /\ category \in p.cats
    /\ BaseImportance(importance) * user_weight(p, category) > Threshold

\* Lines 359-370, on the record p that get_user_preferences returned.
should_send(p, category, importance) ==
    /\ category \in p.cats
    /\ BaseImportance(importance) * user_weight(p, category) >= Threshold

\* The stored records should_send_notification is run against: every weight
\* from 0.1 to 1.0, with preferred categories that hold all weighted
\* categories, leave "technical" out, or name one without a weight.
NotifyPrefs ==
    {DefaultPrefs} \cup
    {[DefaultPrefs EXCEPT !.cats = cs, !.weights = [c \in Categories |-> w]] :
        w \in MinWeight..MaxWeight,
        cs \in {Categories, {"content", "design"}, {"content", "news"}}}

\* One user has a stored record, the others have none.
NotifyInit ==
    /\ \E u \in Users, p \in NotifyPrefs :
          prefs = [v \in Users |-> IF v = u THEN p ELSE NoPrefs]
    /\ lock = "free"
    /\ task = IdleTask
    /\ received = [n \in Notifs |-> FALSE]
    /\ feedback = [u \in Users |-> 0]
    /\ stats = [likes |-> 0, dislikes |-> 0]
    /\ done = [u \in Users |-> 0]
    /\ zone = [u \in Users |-> TRUE]
    /\ initial = prefs
    /\ lookup = NoLookup
    /\ NoteIdle

\* should_send_notification(user_id, change_analysis), lines 356-370: it
\* starts with get_user_preferences, which does not return for a user
\* without a row.
should_send_notification(u, category, importance) ==
    /\ task.op = "idle"
    /\ IF prefs[u] = NoPrefs
       THEN /\ get_user_preferences_call(u)
            /\ UNCHANGED decision
       ELSE /\ decision' = [user |-> u, category |-> category,
                            importance |-> importance,
                            send |-> should_send(prefs[u], category, importance)]
            /\ UNCHANGED <<monVars, prefVars, pipeVars, storeVars, pending, flushed,
                            serial>>

NextNotify ==
    \E u \in Users, category \in AnalysisCategories, importance \in Importances :
        should_send_notification(u, category, importance)

InitNotify == MonIdle /\ NotifyInit

SpecNotify == InitNotify /\ [][NextNotify]_vars

\* ------------------------------------ claims: should_send_notification
\* C5: for a user with a stored record, should_send_notification returns
\* false when the category is not among the preferred categories, whatever
\* the score; otherwise it returns true exactly when base importance (high
\* 1.0, medium 0.5, low 0.2) times the category's weight is at least 0.3.
C5_ShouldSendFormula ==
    decision # NoDecision
    => LET p == prefs[decision.user]
           w == IF decision.category \in Categories
                THEN p.weights[decision.category] ELSE 5
           base == CASE decision.importance = "high" -> 10
                     [] decision.importance = "medium" -> 5
                     [] decision.importance = "low" -> 2
       IN  /\ decision.category \notin p.cats => ~decision.send
           /\ decision.category \in p.cats => (decision.send <=> base * w >= 30)

\* C5 witness: a medium change of a preferred category at weight 0.6, a score
\* of exactly 0.3, was accepted.
C5_Witness ==
    /\ decision # NoDecision
    /\ decision.importance = "medium"
    /\ decision.category \in prefs[decision.user].cats
    /\ decision.category \in Categories
    /\ prefs[decision.user].weights[decision.category] = 6
    /\ decision.send

\* ------------------------------------------------ NotificationGrouper
\* site_name is the site's domain (a netloc without "www.").
SiteNames == {"shop.io", "my_shop.io"}

GroupCategories == {"content", "design"}

\* The notification process_change builds, lines 611-620. The text of
\* personalized_summary is kept as the number of the notification;
\* is_summary and detailed_changes are the keys only a summary has.
Notification(id, site_name, category, importance) ==
    [notification_id |-> id, site_name |-> site_name, category |-> category,
     importance |-> importance, personalized_summary |-> id,
     is_summary |-> FALSE, detailed_changes |-> <<>>]

\* Mutant: the key leaves the site out.
GroupKeyCategoryOnly(n) == n.category

\* key = f"{notification['category']}_{notification['site_name']}", line 540.
GroupKey(n) == n.category \o "_" \o n.site_name

\* The keys of `grouped` in insertion order, lines 538-541.
RECURSIVE KeyOrder(_, _, _)
KeyOrder(ns, i, seen) ==
    IF i > Len(ns) THEN <<>>
    ELSE IF GroupKey(ns[i]) \in seen
         THEN KeyOrder(ns, i + 1, seen)
         ELSE <<GroupKey(ns[i])>> \o KeyOrder(ns, i + 1, seen \cup {GroupKey(ns[i])})

\* Mutant: a group keeps its first notification only.
GroupOfFirst(ns, key) ==
    SubSeq(SelectSeq(ns, LAMBDA n : GroupKey(n) = key), 1, 1)

\* grouped[key], the notifications of one key in queue order.
GroupOf(ns, key) == SelectSeq(ns, LAMBDA n : GroupKey(n) = key)

\* Python's order on the strings 'high' < 'low' < 'medium', which max() of
\* line 561 compares.
StrRank(importance) ==
    CASE importance = "high" -> 1
      [] importance = "low" -> 2
      [] importance = "medium" -> 3

StrMax(group) ==
    CHOOSE x \in {group[i].importance : i \in 1..Len(group)} :
        \A j \in 1..Len(group) : StrRank(group[j].importance) <= StrRank(x)

\* Lines 555-568; notification_id "summary_<timestamp>" is kept as 0.
_create_summary_notification(group) ==
    [notification_id |-> 0, site_name |-> group[1].site_name,
     category |-> group[1].category, importance |-> StrMax(group),
     personalized_summary |-> 0, is_summary |-> TRUE,
     detailed_changes |-> [i \in 1..Len(group) |-> group[i].personalized_summary]]

\* summary_notifications, lines 543-550.
Grouped(ns) ==
    LET keys == KeyOrder(ns, 1, {})
    IN  [k \in 1..Len(keys) |->
            LET group == GroupOf(ns, keys[k])
            IN  IF Len(group) = 1 THEN group[1]
                ELSE _create_summary_notification(group)]

\* add_notification(user_id, notification), lines 529-530.
add_notification(u, site_name, category, importance) ==
    /\ serial < MaxQueued
    /\ serial' = serial + 1
    /\ pending' = [pending EXCEPT ![u] =
                      Append(@, Notification(serial + 1, site_name, category,
                                             importance))]
    /\ UNCHANGED <<decision, flushed>>
    /\ UNCHANGED <<monVars, prefVars, pipeVars, storeVars>>

\* Mutant: the queue is left as it was.
ClearPendingSkipped(q, u) == q

\* self.pending_notifications[user_id] = [], line 552.
ClearPending(q, u) == [q EXCEPT ![u] = <<>>]

\* get_grouped_notifications(user_id), lines 532-553: an empty list returns
\* before line 552.
get_grouped_notifications(u) ==
    /\ flushed' = [user |-> u, notifications |-> pending[u],
                   result |-> Grouped(pending[u])]
    /\ pending' = IF pending[u] = <<>> THEN pending
                  ELSE ClearPending(pending, u)
    /\ UNCHANGED <<decision, serial>>
    /\ UNCHANGED <<monVars, prefVars, pipeVars, storeVars>>

NextGroup ==
    \/ \E u \in Users, site_name \in SiteNames, category \in GroupCategories,
          importance \in Importances :
            add_notification(u, site_name, category, importance)
    \/ \E u \in Users : get_grouped_notifications(u)

InitGroup == MonIdle /\ BotIdle

SpecGroup == InitGroup /\ [][NextGroup]_vars

\* ---------------------------------------- claims: NotificationGrouper
SameKey(n, m) == n.category = m.category /\ n.site_name = m.site_name

\* C10: a flush of one user's queue of N >= 2 notifications with the same
\* (category, site) returns one summary whose detail list holds the N
\* personalized summaries in queue order; a flush of N notifications with
\* pairwise distinct (category, site) returns those N notifications
\* unchanged; no flush touches the queue of another user.
C10_GroupingByCategoryAndSite ==
    [][flushed' # flushed
       => LET u == flushed'.user
              ns == flushed'.notifications
              out == flushed'.result
              N == Len(ns)
          IN  /\ ns = pending[u]
              /\ \A v \in Users \ {u} : pending'[v] = pending[v]
              /\ (N >= 2 /\ \A i \in 1..N : SameKey(ns[i], ns[1]))
                 => /\ Len(out) = 1
                    /\ out[1].is_summary
                    /\ out[1].detailed_changes =
                          [i \in 1..N |-> ns[i].personalized_summary]
              /\ (\A i, j \in 1..N : i # j => ~SameKey(ns[i], ns[j]))
                 => out = ns]_vars

\* C10 witness: a flush turned two queued notifications of one key into one
\* summary whose detail list is their two summaries in queue order.
C10_Witness ==
    /\ Len(flushed.notifications) >= 2
    /\ \A i \in 1..Len(flushed.notifications) :
          SameKey(flushed.notifications[i], flushed.notifications[1])
    /\ Len(flushed.result) = 1
    /\ flushed.result[1].is_summary
    /\ Len(flushed.result[1].detailed_changes) = Len(flushed.notifications)
    /\ pending[flushed.user] = <<>>

\* The order low < medium < high.
ImportanceOrder(importance) ==
    CASE importance = "low" -> 1
      [] importance = "medium" -> 2
      [] importance = "high" -> 3

\* C11: the importance of every summary a flush returned is the highest
\* importance, under low < medium < high, of the queued notifications of the
\* summary's (category, site).
C11_SummaryImportanceIsMax ==
    \A k \in 1..Len(flushed.result) :
        flushed.result[k].is_summary
        => LET group == SelectSeq(flushed.notifications,
                                  LAMBDA n : SameKey(n, flushed.result[k]))
           IN  /\ \E i \in 1..Len(group) :
                     group[i].importance = flushed.result[k].importance
               /\ \A i \in 1..Len(group) :
                     ImportanceOrder(group[i].importance)
                        <= ImportanceOrder(flushed.result[k].importance)

\* C12: a flush leaves the user's queue empty, and a flush of an empty queue
\* returns the empty sequence and changes nothing but the record of the call;
\* so a flush right after a flush of the same user returns the empty sequence.
C12_FlushDrains ==
    [][flushed' # flushed
       => LET u == flushed'.user
          IN  /\ flushed'.notifications = pending[u]
              /\ pending'[u] = <<>>
              /\ pending[u] = <<>>
                 => /\ flushed'.result = <<>>
                    /\ pending' = pending
                    /\ serial' = serial
              /\ (flushed.user = u /\ pending[u] = pending'[u])
                 => flushed'.result = <<>>]_vars

\* C12 witness: the second of two flushes of one user with nothing queued in
\* between, after a first flush that returned a notification.
C12_Witness ==
    /\ flushed.user \in Users
    /\ flushed.notifications = <<>>
    /\ flushed.result = <<>>
    /\ pending[flushed.user] = <<>>
    /\ serial > 0
    /\ \A v \in Users : pending[v] = <<>>

\* What a flush returned, as the personalized summaries it carries: a
\* notification carries its own, a summary those of its detail list.
RECURSIVE Carried(_, _)
Carried(out, k) ==
    IF k > Len(out) THEN <<>>
    ELSE (IF out[k].is_summary THEN out[k].detailed_changes
          ELSE <<out[k].personalized_summary>>) \o Carried(out, k + 1)

Occurrences(seq, x) == Cardinality({i \in 1..Len(seq) : seq[i] = x})

\* C13: a notification leaves a queue only by a flush of its user, and that
\* flush returns it exactly once, as itself or as one detail of one summary;
\* every other step keeps each queue or appends one notification to it.
C13_EachNotificationReturnedOnce ==
    [][\A u \in Users :
          \/ pending'[u] = pending[u]
          \/ /\ Len(pending'[u]) = Len(pending[u]) + 1
             /\ SubSeq(pending'[u], 1, Len(pending[u])) = pending[u]
          \/ /\ pending'[u] = <<>>
             /\ flushed'.user = u
             /\ flushed'.notifications = pending[u]
             /\ Len(Carried(flushed'.result, 1)) = Len(pending[u])
             /\ \A i \in 1..Len(pending[u]) :
                   Occurrences(Carried(flushed'.result, 1),
                               pending[u][i].personalized_summary) = 1]_vars

\* C13 witness: a flush returned one summary that carries both notifications
\* queued for the user, while nothing is left in the queue.
C13_Witness ==
    /\ flushed.user \in Users
    /\ Len(flushed.notifications) = 2
    /\ Len(flushed.result) = 1
    /\ Carried(flushed.result, 1) =
          <<flushed.notifications[1].personalized_summary,
            flushed.notifications[2].personalized_summary>>
    /\ flushed.notifications[1].importance # flushed.notifications[2].importance
    /\ pending[flushed.user] = <<>>

\* ------------------------------------- analysis and process_change
\* The thresholds of _basic_analysis, lines 448 and 451.
HighDiffLen == 2000
MediumDiffLen == 500

\* Lengths of change_data['diff'], between 0 and the 5000 of line 1100.
DiffLens == {0, MediumDiffLen, MediumDiffLen + 1, HighDiffLen, HighDiffLen + 1,
             MaxDiffLen}

Analysis(category, importance) ==
    [shape |-> "object", category |-> category, importance |-> importance,
     personalized_summary |-> "text"]

\* Mutant: the thresholds are inclusive.
basic_analysis_inclusive(change_size) ==
    IF change_size >= HighDiffLen THEN Analysis("content", "high")
    ELSE IF change_size >= MediumDiffLen THEN Analysis("design", "medium")
    ELSE Analysis("technical", "low")

\* AINotificationFilter._basic_analysis, for change_size = len(diff).
_basic_analysis(change_size) ==
    IF change_size > HighDiffLen THEN Analysis("content", "high")
    ELSE IF change_size > MediumDiffLen THEN Analysis("design", "medium")
    ELSE Analysis("technical", "low")

\* How the call of lines 381-403 can end when a key is set: the request
\* raises (timeout, raise_for_status), the response is not the JSON the code
\* indexes, the content is JSON of another shape than the prompt asks for,
\* or it is an answer that follows the prompt.
CallFailures == {"timeout", "http_error", "malformed"}
OffSchema == {"not_object", "no_category", "no_importance", "bad_importance",
              "no_summary"}
AiOutcomes == IF api_key THEN CallFailures \cup OffSchema \cup {"answer"}
              ELSE {"no_key"}

\* An answer that follows the prompt.
AiAnswer == Analysis("content", "medium")

\* json.loads(analysis_text), line 403, returned as it is.
Parsed(ai) ==
    CASE ai = "not_object" -> [NoAnalysis EXCEPT !.shape = "list"]
      [] ai = "no_category" -> [AiAnswer EXCEPT !.category = "missing"]
      [] ai = "no_importance" -> [AiAnswer EXCEPT !.importance = "missing"]
      [] ai = "bad_importance" -> [AiAnswer EXCEPT !.importance = "critical"]
      [] ai = "no_summary" -> [AiAnswer EXCEPT !.personalized_summary = "missing"]
      [] ai = "answer" -> AiAnswer

\* AINotificationFilter.analyze_change_importance, lines 378-407.
analyze_change_importance(change_size, ai) ==
    IF ai \in {"no_key"} \cup CallFailures
    THEN _basic_analysis(change_size)
    ELSE Parsed(ai)

\* should_send_notification and lines 606-620 on an analysis: "raises" for the
\* AttributeError and KeyError of lines 359, 364, 614-618, caught at line 627.
Verdict(p, an) ==
    IF an.shape # "object" THEN "raises"
    ELSE IF an.category \notin p.cats THEN "filtered"
    ELSE LET importance == IF an.importance = "missing" THEN "medium"
                           ELSE an.importance
         IN  IF importance \notin Importances THEN "raises"
             ELSE IF ~should_send(p, an.category, importance) THEN "filtered"
             ELSE IF an.importance = "missing"
                     \/ an.personalized_summary = "missing"
                  THEN "raises"
                  ELSE "notified"

\* process_change up to its first await, lines 585-632: the preferences, the
\* analysis, the filter, the notification, add_notification and the flush of
\* _send_grouped_notifications. For a user without a row get_user_preferences
\* does not return and the event loop stays in it. Coroutines are numbered in
\* the order in which they start.
process_change(r, u, site_name, change_size, ai) ==
    /\ runs[r].pc = "new"
    /\ \A q \in Runs : q < r => runs[q].pc # "new"
    /\ task.op = "idle"
    /\ serial < MaxQueued
    /\ ai \in AiOutcomes
    /\ IF prefs[u] = NoPrefs
       THEN /\ lock' = "held"
            /\ task' = [IdleTask EXCEPT !.op = "get_prefs", !.stage = "write_defaults",
                                        !.user = u, !.p1 = DefaultPrefs]
            /\ runs' = [runs EXCEPT ![r] = [pc |-> "blocked", user |-> u,
                                            outbox |-> <<>>]]
            /\ processed' = [NotProcessed EXCEPT !.user = u, !.diff_len = change_size,
                                                 !.ai = ai, !.outcome = "blocked"]
            /\ UNCHANGED <<pending, flushed, serial, pstats>>
       ELSE LET an == analyze_change_importance(change_size, ai)
                verdict == Verdict(prefs[u], an)
                queue == Append(pending[u],
                                Notification(serial + 1, site_name, an.category,
                                             an.importance))
            IN  /\ processed' = [user |-> u, diff_len |-> change_size, ai |-> ai,
                                 analysis |-> an,
                                 outcome |-> IF verdict = "raises" THEN "error"
                                             ELSE verdict]
                /\ pstats' = IF verdict = "filtered"
                             THEN [pstats EXCEPT !.filtered = @ + 1]
                             ELSE pstats
                /\ IF verdict = "notified"
                   THEN /\ serial' = serial + 1
                        /\ flushed' = [user |-> u, notifications |-> queue,
                                       result |-> Grouped(queue)]
                        /\ pending' = ClearPending([pending EXCEPT ![u] = queue], u)
                        /\ runs' = [runs EXCEPT ![r] =
                                      [pc |-> "sending", user |-> u,
                                       outbox |-> Grouped(queue)]]
                   ELSE /\ runs' = [runs EXCEPT ![r] = DoneRun]
                        /\ UNCHANGED <<pending, flushed, serial>>
                /\ UNCHANGED <<lock, task>>
    /\ UNCHANGED <<prefs, received, feedback, stats, done, zone, initial,
                   lookup>>
    /\ UNCHANGED <<decision, api_key, delivery>>
    /\ UNCHANGED <<monVars, storeVars>>

\* What bot.send_message and _save_notification_history can end in.
SendResults == {"accepted", "send_fails", "history_fails"}

\* Mutant: the history row is written whatever send_message ended in.
save_history_unconditional(result) ==
    IF result = "history_fails" THEN 0 ELSE 1

\* The rows _save_notification_history adds, lines 683-693: it is reached
\* only when send_message returned (line 657), and its own failure is caught
\* at line 692.
_save_notification_history(result) ==
    IF result = "accepted" THEN 1 ELSE 0

\* Mutant: a notification whose send failed stays first in the list.
AfterSendRetry(outbox, result) ==
    IF result = "send_fails" THEN outbox ELSE Tail(outbox)

\* What the loop of _send_grouped_notifications has left to send after one
\* _send_single_notification, which catches the exception of a failed send
\* (lines 634-635, 660-661).
AfterSend(outbox, result) == Tail(outbox)

\* One turn of the loop of _send_grouped_notifications, lines 634-635, with
\* _send_single_notification; after the last one lines 625-626.
_send_single_notification(r, result) ==
    /\ runs[r].pc = "sending"
    /\ task.op = "idle"
    /\ LET n == Head(runs[r].outbox)
           rest == AfterSend(runs[r].outbox, result)
       IN  /\ delivery' = [delivery EXCEPT
                  ![n.notification_id] =
                      [attempts |-> @.attempts + 1,
                       accepted |-> @.accepted + (IF result = "send_fails" THEN 0 ELSE 1),
                       rows |-> @.rows + _save_notification_history(result)]]
           /\ runs' = [runs EXCEPT ![r] = IF rest = <<>> THEN DoneRun
                                           ELSE [@ EXCEPT !.outbox = rest]]
           /\ pstats' = IF rest = <<>> THEN [pstats EXCEPT !.sent = @ + 1] ELSE pstats
    /\ UNCHANGED <<api_key, processed>>
    /\ UNCHANGED <<decision, pending, flushed, serial>>
    /\ UNCHANGED <<monVars, prefVars, storeVars>>

NextPipe ==
    \/ \E r \in Runs, u \in Users, site_name \in SiteNames,
          change_size \in DiffLens, ai \in CallFailures \cup OffSchema \cup {"answer", "no_key"} :
            process_change(r, u, site_name, change_size, ai)
    \/ \E r \in Runs, result \in SendResults : _send_single_notification(r, result)

\* The preferences rows an earlier run left, and whether a key is configured.
PipeInit ==
    /\ prefs \in [Users -> {NoPrefs, DefaultPrefs}]
    /\ lock = "free"
    /\ task = IdleTask
    /\ received = [n \in Notifs |-> FALSE]
    /\ feedback = [u \in Users |-> 0]
    /\ stats = [likes |-> 0, dislikes |-> 0]
    /\ done = [u \in Users |-> 0]
    /\ zone = [u \in Users |-> TRUE]
    /\ initial = prefs
    /\ lookup = NoLookup
    /\ decision = NoDecision
    /\ pending = [u \in Users |-> <<>>]
    /\ flushed = NoFlush
    /\ serial = 0
    /\ api_key \in BOOLEAN
    /\ processed = NotProcessed
    /\ runs = [r \in Runs |-> NewRun]
    /\ pstats = [filtered |-> 0, sent |-> 0]
    /\ delivery = [id \in 0..MaxQueued |-> NoDelivery]
    /\ StoreIdle

InitPipe == MonIdle /\ PipeInit

SpecPipe == InitPipe /\ [][NextPipe]_vars

\* ------------------------------------------- claims: analysis fallback
\* The local heuristic as specified: by the length of the diff excerpt alone.
LocalHeuristic(L) ==
    IF L > 2000 THEN [category |-> "content", importance |-> "high"]
    ELSE IF L > 500 THEN [category |-> "design", importance |-> "medium"]
    ELSE [category |-> "technical", importance |-> "low"]

Analysed == processed.outcome \notin {"none", "blocked"}

\* C14: with no enrichment the analysis of every change record, whatever the
\* length of its diff excerpt (0 included), is the local heuristic's: content
\* and high over 2000 characters, design and medium over 500 up to 2000,
\* technical and low up to 500; it is always a result and the run that asked
\* for it does not end in an error.
C14_LocalHeuristicByLength ==
    (Analysed /\ processed.ai = "no_key")
    => /\ processed.analysis.shape = "object"
       /\ processed.analysis.category = LocalHeuristic(processed.diff_len).category
       /\ processed.analysis.importance = LocalHeuristic(processed.diff_len).importance
       /\ processed.analysis.personalized_summary = "text"
       /\ processed.outcome # "error"

\* C14 witness: a diff excerpt of exactly 2000 characters was analysed as
\* design and medium, and the notification was built.
C14_Witness ==
    /\ processed.ai = "no_key"
    /\ processed.diff_len = 2000
    /\ processed.analysis.category = "design"
    /\ processed.analysis.importance = "medium"
    /\ processed.outcome = "notified"

\* C15: whenever the enrichment is not configured or its call did not yield
\* an answer that follows the schema, the analysis process_change works with
\* is the local heuristic's for the same change, and the run does not end in
\* the error branch.
C15_FallbackOnAnyFailure ==
    (Analysed /\ processed.ai # "answer")
    => /\ processed.analysis.category = LocalHeuristic(processed.diff_len).category
       /\ processed.analysis.importance = LocalHeuristic(processed.diff_len).importance
       /\ processed.outcome # "error"

\* ------------------------------------------- claims: scans and errors
\* C16: every change a check detects is handed to the event loop: the
\* process_change coroutine of the site's owner is queued on it.
C16_ChangeHandedToPipeline ==
    \A t \in Threads : cur[t].emitted => cur[t].sched = "queued"

\* C17: whatever a check ends in, an exception raised while recording its
\* error included, the scan goes on: the check's end leaves the rest of the
\* due list as it was, the scan takes its next row from the head of that
\* list, and it ends only when the list is empty.
C17_FailureDoesNotAbortScan ==
    [][\A t \in Threads :
          /\ (InCheck(t) /\ ~InCheck(t)')
             => (pc'[t] = "scan" /\ due'[t] = due[t])
          /\ (pc[t] = "scan" /\ pc'[t] # "scan")
             => IF due[t] = <<>>
                THEN pc'[t] \in {"idle", "done"}
                ELSE /\ pc'[t] = "fetch"
                     /\ cur'[t].site = Head(due[t]).id
                     /\ due'[t] = Tail(due[t])
          /\ due'[t] # due[t] => pc[t] \in {"start", "idle", "scan"}]_vars

\* C17 witness: the recording of a check's error raised, and the scan is at
\* the head of its loop with a site left to check.
C17_Witness ==
    \E t \in Threads :
        /\ pc[t] = "scan"
        /\ cur[t].outcome = "raised"
        /\ due[t] # <<>>

\* C18: a check that ends in a fetch error or in a parse error (a text under
\* 50 characters included), and whose record the store accepts, adds one
\* check_errors row of its site; a check that ends in the write adds none.
C18_ErrorRecordPerFailedCheck ==
    [][\A t \in Threads :
          (InCheck(t) /\ ~InCheck(t)')
          => /\ cur'[t].outcome \in {"error", "skipped"}
                => errors' = [errors EXCEPT ![cur[t].site] = @ + 1]
             /\ cur'[t].outcome = "checked" => errors' = errors]_vars

\* C19: no two scan threads are inside a check of the same site.
C19_NoOverlappingChecks ==
    \A t1, t2 \in Threads :
        (t1 # t2 /\ InCheck(t1) /\ InCheck(t2)) => cur[t1].site # cur[t2].site

\* C20: a check emits a change only for a text whose fingerprint the store
\* does not hold yet: once a check has taken the site from A to B, no other
\* check emits the transition to B again.
C20_OneChangePerTransition ==
    \A t \in Threads :
        (pc[t] = "update" /\ cur[t].emitted)
        => sites[cur[t].site].last_hash # cur[t].hash

\* ------------------------------------------------- DatabaseManager
\* The store methods each side calls. main() builds one DatabaseManager for
\* SmartMonitoringSystem (line 1170); MonitoringBot.__init__ builds another
\* (line 728) for its handlers and for SmartNotificationSystem. Each has a
\* Lock of its own (line 58) and both open monitoring.db.
ScanOps == {"get_all_monitored_sites", "update_site_hash", "record_error"}
BotOps == {"get_user_preferences", "update_user_preferences", "record_feedback",
           "_save_notification_history", "handle_feedback", "subscribe_user",
           "unsubscribe_user"}

OpsOf(p) == IF p \in Threads THEN ScanOps ELSE BotOps

\* The DatabaseManager whose get_connection thread p calls.
ManagerOf(p) == IF p \in Threads THEN "main" ELSE "bot"

LockOf(p) == IF ManagerOf(p) = "main" THEN mlock ELSE lock

\* A store method is called: the thread reaches `with self.lock`, line 146.
CallStore(p, op) ==
    /\ conn[p].stage = "idle"
    /\ op \in OpsOf(p)
    /\ conn' = [conn EXCEPT ![p] = [op |-> op, stage |-> "waiting"]]
    /\ UNCHANGED <<mlock, lock>>
    /\ UNCHANGED <<prefs, task, received, feedback, stats, done, zone, initial,
                   lookup>>
    /\ UNCHANGED <<monVars, noteVars, pipeVars>>

\* get_connection, lines 146-149: the Lock is taken and the connection opened.
get_connection(p) ==
    /\ conn[p].stage = "waiting"
    /\ LockOf(p) = "free"
    /\ conn' = [conn EXCEPT ![p].stage = "open"]
    /\ IF ManagerOf(p) = "main"
       THEN mlock' = "held" /\ lock' = lock
       ELSE lock' = "held" /\ mlock' = mlock
    /\ UNCHANGED <<prefs, task, received, feedback, stats, done, zone, initial,
                   lookup>>
    /\ UNCHANGED <<monVars, noteVars, pipeVars>>

\* get_connection, lines 150-158: commit or rollback, close, and the Lock is
\* released.
CloseConnection(p) ==
    /\ conn[p].stage = "open"
    /\ conn' = [conn EXCEPT ![p] = NoConn]
    /\ IF ManagerOf(p) = "main"
       THEN mlock' = "free" /\ lock' = lock
       ELSE lock' = "free" /\ mlock' = mlock
    /\ UNCHANGED <<prefs, task, received, feedback, stats, done, zone, initial,
                   lookup>>
    /\ UNCHANGED <<monVars, noteVars, pipeVars>>

NextStore ==
    \/ \E p \in Procs, op \in ScanOps \cup BotOps : CallStore(p, op)
    \/ \E p \in Procs : get_connection(p)
    \/ \E p \in Procs : CloseConnection(p)

InitStore == MonIdle /\ BotIdle

SpecStore == InitStore /\ [][NextStore]_vars

\* -------------------------------------------- claims: store access
\* C21: at any moment at most one connection to the store is open, the scan
\* threads and the bot's event loop counted together.
C21_SingleWriter ==
    \A p, q \in Procs :
        (conn[p].stage = "open" /\ conn[q].stage = "open") => p = q

\* ------------------------------------------------ claims: due sites
\* C22: the due list a scan reads holds a site exactly when its owner is
\* subscribed and the site was never checked or now >= last_checked +
\* check_interval, the instant now = last_checked + check_interval included.
C22_DueAtInterval ==
    [][\A t \in Threads :
          (pc[t] \in {"start", "idle"} /\ pc'[t] = "scan")
          => \A s \in Sites :
                (\E i \in 1..Len(due'[t]) : due'[t][i].id = s)
                <=> /\ subscribed[SiteOwner(s)]
                    /\ \/ sites[s].last_checked = Null
                       \/ now >= sites[s].last_checked + CheckInterval]_vars

C24_StopBetweenSites ==
    [][\A t \in Threads :
          (~active /\ pc[t] = "scan") => pc'[t] # "fetch"]_vars

C26_IncompleteCheckIsSkip ==
    [][\A t \in Threads :
          /\ (pc[t] = "fetch" /\ pc'[t] = "update")
             => cur'[t].text.len >= MinTextLen
          /\ (pc[t] = "fetch" /\ pc'[t] = "scan")
             => /\ sites' = sites
                /\ scheduled' = scheduled
                /\ ~cur'[t].emitted
                /\ cur'[t].sched = "none"
                /\ IsDue(cur[t].site) => IsDue(cur[t].site)']_vars

\* C26 witness: a check of a site with a stored fingerprint ended on too
\* little text; the row is as the scan read it and the site is due.
C26_Witness ==
    \E t \in Threads :
        /\ pc[t] = "scan"
        /\ cur[t].outcome = "skipped"
        /\ cur[t].last_hash # NoHash
        /\ sites[cur[t].site].last_hash = cur[t].last_hash
        /\ IsDue(cur[t].site)

\* ------------------------------------------- claims: learned patterns
\* The likes and the dislikes stored for pattern k; 0 when it has no entry.
PatternLikes(ps, k) ==
    IF \E i \in 1..Len(ps) : ps[i].key = k
    THEN (CHOOSE x \in {ps[i] : i \in 1..Len(ps)} : x.key = k).likes
    ELSE 0

PatternDislikes(ps, k) ==
    IF \E i \in 1..Len(ps) : ps[i].key = k
    THEN (CHOOSE x \in {ps[i] : i \in 1..Len(ps)} : x.key = k).dislikes
    ELSE 0

PatternKeys == {<<c, i>> : c \in Categories, i \in Importances}

\* qs is ps after one event of type ftype on pattern key, nothing else.
OneIncrement(ps, qs, key, ftype) ==
    /\ \A i, j \in 1..Len(qs) : qs[i].key = qs[j].key => i = j
    /\ \A i \in 1..Len(qs) : qs[i].key \in PatternKeys
    /\ \A k \in PatternKeys :
          /\ PatternLikes(qs, k) =
                PatternLikes(ps, k) + (IF k = key /\ ftype = "like" THEN 1 ELSE 0)
          /\ PatternDislikes(qs, k) =
                PatternDislikes(ps, k)
                  + (IF k = key /\ ftype \in {"dislike", "dismiss"} THEN 1 ELSE 0)

C28_MonotonicInWeight ==
    (/\ decision # NoDecision
     /\ decision.category \in prefs[decision.user].cats
     /\ decision.category \in Categories)
    => LET p == prefs[decision.user]
           c == decision.category
           w == p.weights[c]
       IN  /\ decision.send
              => \A w2 \in w..MaxWeight :
                    should_send([p EXCEPT !.weights[c] = w2], c, decision.importance)
           /\ ~decision.send
              => \A w1 \in MinWeight..w :
                    ~should_send([p EXCEPT !.weights[c] = w1], c, decision.importance)

\* C28 witness: a medium change of a preferred category was rejected at
\* weight 0.5, one step under the weight at which it is accepted.
C28_Witness ==
    /\ decision # NoDecision
    /\ decision.importance = "medium"
    /\ decision.category \in prefs[decision.user].cats
    /\ decision.category \in Categories
    /\ prefs[decision.user].weights[decision.category] = 5
    /\ ~decision.send

\* --------------------------------------- claims: feedback without a row
\* C29: handle_feedback for a (notification_id, user_id) that has no
\* notification_history row (an id of another user's notification, or an id
\* the table does not hold) adds no feedback row, creates or changes no
\* preferences record, leaves the feedback statistics and the flag of every
\* notification as they were, and returns: the loop is free for the next
\* handler.
C29_FeedbackWithoutRowIsNoOp ==
    [][(/\ lookup' # lookup
        /\ \/ lookup'.notif \notin Notifs
           \/ NotifRow(lookup'.notif).user_id # lookup'.user)
       => /\ ~lookup'.found
          /\ feedback' = feedback
          /\ received' = received
          /\ prefs' = prefs
          /\ stats' = stats
          /\ done' = done
          /\ lock' = lock
          /\ task' = IdleTask]_vars

\* C29 witness: after an event of one user was recorded, the other user sent
\* feedback on that user's notification: the lookup found nothing and the
\* tables hold the one event.
C29_Witness ==
    /\ lookup.notif \in Notifs
    /\ NotifRow(lookup.notif).user_id # lookup.user
    /\ ~lookup.found
    /\ task = IdleTask
    /\ feedback[NotifRow(lookup.notif).user_id] = 1
    /\ received[lookup.notif]
    /\ feedback[lookup.user] = 0

\* ------------------------------------------------ claims: unsubscribe
\* C30: while a user is unsubscribed no check of a site of that user starts
\* and no change of such a site is handed to the loop for notification, in
\* a scan that read its due list before the unsubscribe as in any other.
C30_UnsubscribedNotChecked ==
    [][/\ \A t \in Threads :
             (pc[t] = "scan" /\ pc'[t] = "fetch")
             => subscribed[SiteOwner(cur'[t].site)]
       /\ \A u \in Users :
             scheduled'[u] # scheduled[u] => subscribed[u]]_vars

\* ------------------------------------------- claims: queue in the pipeline
\* C31: in the pipeline of process_change every user's queue is empty
\* whenever a coroutine can be suspended, and every flush process_change
\* issued found exactly the notification just queued and returned it as it
\* is, never a summary.
C31_QueueFlushedBeforeAwait ==
    /\ \A u \in Users : pending[u] = <<>>
    /\ flushed # NoFlush
       => /\ Len(flushed.notifications) = 1
          /\ flushed.result = flushed.notifications
          /\ ~flushed.result[1].is_summary
          /\ flushed.result[1].notification_id \in 1..serial
          /\ \A r \in Runs :
                runs[r].pc = "sending"
                => (Len(runs[r].outbox) = 1 /\ ~runs[r].outbox[1].is_summary)

\* C31 witness: a second change of the same user, site and category was
\* processed while the notification of the first still waits for its send;
\* the second flush returned the second notification alone.
C31_Witness ==
    \E r \in Runs :
        /\ runs[r].pc = "sending"
        /\ runs[r].user = flushed.user
        /\ flushed.result # <<>>
        /\ runs[r].outbox[1].notification_id # flushed.result[1].notification_id
        /\ SameKey(runs[r].outbox[1], flushed.result[1])
        /\ pending[flushed.user] = <<>>

\* ------------------------------------------ claims: low importance
\* C32: should_send_notification accepts no change of importance low,
\* whatever the category and the weight; it accepts a design change of
\* importance medium only at a design weight of 0.6 or more; and for every
\* stored record, process_change without a key filters every change whose
\* diff excerpt has at most 500 characters.
C32_LowNeverAccepted ==
    /\ (decision # NoDecision /\ decision.importance = "low") => ~decision.send
    /\ (/\ decision # NoDecision
        /\ decision.category = "design"
        /\ decision.importance = "medium"
        /\ decision.send)
       => prefs[decision.user].weights["design"] >= 6
    /\ \A u \in Users :
          prefs[u] # NoPrefs
          => \A L \in {l \in DiffLens : l <= 500} :
                Verdict(prefs[u], analyze_change_importance(L, "no_key")) = "filtered"

\* C32 witness: a low change of a preferred category was rejected at weight
\* 1.0, the highest score a low change can have.
C32_Witness ==
    /\ decision # NoDecision
    /\ decision.importance = "low"
    /\ decision.category \in prefs[decision.user].cats
    /\ decision.category \in Categories
    /\ prefs[decision.user].weights[decision.category] = MaxWeight
    /\ ~decision.send

\* ------------------------------------------- claims: repeated feedback
\* C33: handle_feedback finds the notification of its user every time,
\* with feedback_received set or not; each such event adds one feedback row
\* and sets the flag of that notification, which stays set; and once the
\* events of a user's only notification have ended, the likes and dislikes
\* of its (category, importance) pattern add up to the feedback rows of the
\* user.
C33_FeedbackCountedEveryTime ==
    /\ []((/\ lookup # NoLookup
           /\ lookup.notif \in Notifs
           /\ NotifRow(lookup.notif).user_id = lookup.user)
          => lookup.found)
    /\ [](\A n \in Notifs :
            LET u == NotifRow(n).user_id
                key == <<NotifRow(n).category, NotifRow(n).importance>>
            IN  (/\ \A m \in Notifs : NotifRow(m).user_id = u => m = n
                 /\ prefs[u] # NoPrefs
                 /\ Quiet(u))
                => PatternLikes(prefs[u].patterns, key)
                     + PatternDislikes(prefs[u].patterns, key) = feedback[u])
    /\ [][\A u \in Users :
            feedback'[u] # feedback[u]
            => /\ feedback'[u] = feedback[u] + 1
               /\ lookup'.user = u
               /\ received'[lookup'.notif]
               /\ \A m \in Notifs :
                     m # lookup'.notif => received'[m] = received[m]]_vars

\* C33 witness: three events on one notification, likes and dislikes among
\* them, have ended: three feedback rows and a pattern that counts three.
C33_Witness ==
    \E n \in Notifs :
        LET u == NotifRow(n).user_id
            key == <<NotifRow(n).category, NotifRow(n).importance>>
        IN  /\ prefs[u] # NoPrefs
            /\ Quiet(u)
            /\ received[n]
            /\ feedback[u] = 3
            /\ PatternLikes(prefs[u].patterns, key) >= 1
            /\ PatternDislikes(prefs[u].patterns, key) >= 1
            /\ PatternLikes(prefs[u].patterns, key)
                 + PatternDislikes(prefs[u].patterns, key) = 3

\* ------------------------------------------- claims: at most one send
RECURSIVE HoldsId(_, _)
HoldsId(seq, id) ==
    IF seq = <<>> THEN FALSE
    ELSE Head(seq).notification_id = id \/ HoldsId(Tail(seq), id)

\* C34: every notification is handed to send_message at most once: once it
\* was, no queue and no list still to send holds it; a failed send writes no
\* history row, queues nothing, and the run that sent it ends as a run whose
\* send succeeded does, counted in notifications_sent and not as an error.
C34_AtMostOneSend ==
    /\ [](\A id \in DOMAIN delivery :
            /\ delivery[id].attempts <= 1
            /\ delivery[id].attempts = 1
               => /\ \A u \in Users : ~HoldsId(pending[u], id)
                  /\ \A r \in Runs : ~HoldsId(runs[r].outbox, id))
    /\ [][\A id \in DOMAIN delivery :
            (/\ delivery'[id].attempts = delivery[id].attempts + 1
             /\ delivery'[id].accepted = delivery[id].accepted)
            => /\ delivery'[id].rows = delivery[id].rows
               /\ pending' = pending
               /\ processed' = processed
               /\ pstats' = [pstats EXCEPT !.sent = @ + 1]
               /\ \E r \in Runs :
                     /\ runs[r].pc = "sending"
                     /\ Head(runs[r].outbox).notification_id = id
                     /\ runs' = [runs EXCEPT ![r] = DoneRun]]_vars

\* C34 witness: the send of the first notification failed; its run ended and
\* was counted, a later notification went out, and the first one has one
\* attempt and no history row.
C34_Witness ==
    \E id, later \in DOMAIN delivery :
        /\ id < later
        /\ delivery[id] = [attempts |-> 1, accepted |-> 0, rows |-> 0]
        /\ delivery[later].accepted = 1
        /\ \A r \in Runs : runs[r].pc = "done"
        /\ pstats.sent = 2

====
